---- MODULE Spec2Model ----
(***************************************************************************)
(* Model of src/index.js: an express server with seven routes over the     *)
(* "hubs" collection of the database module ./data/hubs-model.js.          *)
(*                                                                         *)
(* A request is dispatched to the handler its method and path select; a    *)
(* /hubs handler calls one method of the database module and registers a   *)
(* then- and a catch-callback on the promise it returns.  The database     *)
(* module settles the promise in a later step and the callback answers in  *)
(* a step after that, so that requests interleave.                         *)
(***************************************************************************)
EXTENDS Integers, Sequences, FiniteSets, TLC

(* ---------------------------- bounds ----------------------------------- *)

\* number of hubs the collection holds at most
MaxHubs == 1

\* the hub ids, in the order find() lists them
IdOrder == <<"1", "2">>
Ids == {IdOrder[k] : k \in DOMAIN IdOrder}
\* the values of the one attribute a hub carries
Names == {"a", "b"}
\* the errors the database module rejects with
Errors == {"E"}
\* the connections to the server, each with one request at a time
Clients == {"c1", "c2"}

(* ---------------------------- values ----------------------------------- *)

\* JavaScript values that travel through the promises
Undefined == [t |-> "undefined"]
Bool(b) == [t |-> "bool", v |-> b]
Hub(i, n) == [t |-> "hub", id |-> i, name |-> n]
List(q) == [t |-> "list", v |-> q]
Err(e) == [t |-> "error", code |-> e]
\* req.body after express.json(): an object with the submitted fields
Body(n) == [t |-> "obj", name |-> n]
EmptyBody == [t |-> "obj"]

\* the truthiness test of `if (hub)`, `if (updated)`, `if (deleted)`
Truthy(v) ==
    CASE v.t = "undefined" -> FALSE
      [] v.t = "bool" -> v.v
      [] OTHER -> TRUE

RECURSIVE JsonOfSeq(_)
\* what res.json() serialises a value to
JsonOf(v) ==
    CASE v.t = "hub" -> [id |-> v.id, name |-> v.name]
      [] v.t = "error" -> [code |-> v.code]
      [] v.t = "list" -> JsonOfSeq(v.v)
      [] v.t = "obj" -> IF "name" \in DOMAIN v THEN [name |-> v.name] ELSE <<>>
      [] OTHER -> v
JsonOfSeq(q) == IF q = <<>> THEN <<>> ELSE <<JsonOf(Head(q))>> \o JsonOfSeq(Tail(q))

\* the responses: res.send(text), res.status(n).json(x), res.status(n).end()
SendText(n, s) == [status |-> n, body |-> [t |-> "text", v |-> s]]
SendJson(n, x) == [status |-> n, body |-> [t |-> "json", v |-> x]]
SendEnd(n) == [status |-> n, body |-> [t |-> "empty"]]

(* ---------------------------- routing ---------------------------------- *)

Methods == {"GET", "POST", "PUT", "DELETE"}
Paths == {<<>>, <<"now">>, <<"hubs">>} \cup {<<"hubs", i>> : i \in Ids}

\* Route with the id of PUT and DELETE optional ('/hubs/:id?')
RouteOptionalId(method, path) ==
    CASE method = "GET" /\ path = <<>> -> "root"
      [] method = "GET" /\ path = <<"now">> -> "now"
      [] method = "GET" /\ path = <<"hubs">> -> "getHubs"
      [] method = "GET" /\ Len(path) = 2 /\ path[1] = "hubs" -> "getHubById"
      [] method = "POST" /\ path = <<"hubs">> -> "postHub"
      [] method = "PUT" /\ Len(path) \in {1, 2} /\ path[1] = "hubs" -> "putHub"
      [] method = "DELETE" /\ Len(path) \in {1, 2} /\ path[1] = "hubs" -> "deleteHub"
      [] OTHER -> "none"

\* the handler express selects for a method and a path ("none": no route)
Route(method, path) ==
    CASE method = "GET" /\ path = <<>> -> "root"
      [] method = "GET" /\ path = <<"now">> -> "now"
      [] method = "GET" /\ path = <<"hubs">> -> "getHubs"
      [] method = "GET" /\ Len(path) = 2 /\ path[1] = "hubs" -> "getHubById"
      [] method = "POST" /\ path = <<"hubs">> -> "postHub"
      [] method = "PUT" /\ Len(path) = 2 /\ path[1] = "hubs" -> "putHub"
      [] method = "DELETE" /\ Len(path) = 2 /\ path[1] = "hubs" -> "deleteHub"
      [] OTHER -> "none"

HubHandlers == {"getHubs", "getHubById", "postHub", "putHub", "deleteHub"}

\* const {id} = req.params
ParamId(path) == IF Len(path) >= 2 THEN path[2] ELSE "undefined"

\* express's answer when no route matches
NoMatchResponse(method, path) == SendText(404, <<"Cannot", method, path>>)

(* ---------------------------- handlers --------------------------------- *)

\* HandlerCall with GET /hubs/:id calling find() as GET /hubs does
HandlerCallFindAll(h, path, body) ==
    CASE h = "getHubs" -> [fn |-> "find"]
      [] h = "getHubById" -> [fn |-> "find"]
      [] h = "postHub" -> [fn |-> "add", hub |-> body]
      [] h = "putHub" -> [fn |-> "update", id |-> ParamId(path), hub |-> body]
      [] h = "deleteHub" -> [fn |-> "remove", id |-> ParamId(path)]

\* the database call a handler makes
HandlerCall(h, path, body) ==
    CASE h = "getHubs" -> [fn |-> "find"]
      [] h = "getHubById" -> [fn |-> "findById", id |-> ParamId(path)]
      [] h = "postHub" -> [fn |-> "add", hub |-> body]
      [] h = "putHub" -> [fn |-> "update", id |-> ParamId(path), hub |-> body]
      [] h = "deleteHub" -> [fn |-> "remove", id |-> ParamId(path)]

\* the responses each then- and catch-callback sends, in order
GetHubsThen(hubs) == <<SendJson(200, JsonOf(hubs))>>
GetHubsCatch(err) == <<SendJson(500, [sucess |-> FALSE, err |-> JsonOf(err)])>>

\* GetHubByIdThen with the hub wrapped as the other routes wrap theirs
GetHubByIdThenWrapped(hub) ==
    IF Truthy(hub)
    THEN <<SendJson(200, [success |-> TRUE, hub |-> JsonOf(hub)])>>
    ELSE <<SendJson(404, [success |-> FALSE,
                          message |-> "I cannot find the hub you are looking for."])>>

GetHubByIdThen(hub) ==
    IF Truthy(hub)
    THEN <<SendJson(200, JsonOf(hub))>>
    ELSE <<SendJson(404, [success |-> FALSE,
                          message |-> "I cannot find the hub you are looking for."])>>
GetHubByIdCatch(err) == <<SendJson(500, [success |-> FALSE, err |-> JsonOf(err)])>>

PostHubThen(hub) == <<SendJson(201, [sucess |-> TRUE, hub |-> JsonOf(hub)])>>
PostHubCatch(err) == <<SendJson(500, [sucess |-> FALSE, err |-> JsonOf(err)])>>

\* PutHubThen without the test of `updated`
PutHubThenNoCheck(updated) ==
    <<SendJson(200, [success |-> TRUE, updated |-> JsonOf(updated)])>>

\* PutHubThen answering without the updated hub
PutHubThenNoEntity(updated) ==
    IF Truthy(updated)
    THEN <<SendJson(200, [success |-> TRUE])>>
    ELSE <<SendJson(404, [success |-> FALSE,
                          message |-> "I cannot find the hub you are looking for"])>>

PutHubThen(updated) ==
    IF Truthy(updated)
    THEN <<SendJson(200, [success |-> TRUE, updated |-> JsonOf(updated)])>>
    ELSE <<SendJson(404, [success |-> FALSE,
                          message |-> "I cannot find the hub you are looking for"])>>
PutHubCatch(err) == <<SendJson(500, [success |-> FALSE, err |-> JsonOf(err)])>>

\* DeleteHubThen without the else: the 404 is sent after the 204 as well
DeleteHubThenFallThrough(deleted) ==
    (IF Truthy(deleted) THEN <<SendEnd(204)>> ELSE <<>>)
    \o <<SendJson(404, [success |-> FALSE,
                        message |-> "I cannot find the hub you are looking for"])>>

\* DeleteHubThen without the test of `deleted`
DeleteHubThenNoCheck(deleted) == <<SendEnd(204)>>

DeleteHubThen(deleted) ==
    IF Truthy(deleted)
    THEN <<SendEnd(204)>>
    ELSE <<SendJson(404, [success |-> FALSE,
                          message |-> "I cannot find the hub you are looking for"])>>
DeleteHubCatch(err) == <<SendJson(500, [success |-> FALSE, err |-> JsonOf(err)])>>

\* promise.then(f).catch(g): f on fulfilment, g on rejection
OnSettled(h, o) ==
    IF o.kind = "fulfilled"
    THEN CASE h = "getHubs" -> GetHubsThen(o.v)
           [] h = "getHubById" -> GetHubByIdThen(o.v)
           [] h = "postHub" -> PostHubThen(o.v)
           [] h = "putHub" -> PutHubThen(o.v)
           [] h = "deleteHub" -> DeleteHubThen(o.v)
    ELSE CASE h = "getHubs" -> GetHubsCatch(o.v)
           [] h = "getHubById" -> GetHubByIdCatch(o.v)
           [] h = "postHub" -> PostHubCatch(o.v)
           [] h = "putHub" -> PutHubCatch(o.v)
           [] h = "deleteHub" -> DeleteHubCatch(o.v)

(* ---------------------------- database module -------------------------- *)

Absent == "-"
Exists(d, i) == i \in Ids /\ d[i] # Absent
Size(d) == Cardinality({i \in Ids : d[i] # Absent})

RECURSIVE HubsFrom(_, _)
\* the hubs of d with the ids IdOrder[k], IdOrder[k + 1], ...
HubsFrom(d, k) ==
    IF k > Len(IdOrder) THEN <<>>
    ELSE (IF d[IdOrder[k]] # Absent THEN <<Hub(IdOrder[k], d[IdOrder[k]])>> ELSE <<>>)
         \o HubsFrom(d, k + 1)

DbFind(d) == List(HubsFrom(d, 1))
DbFindById(d, i) == IF Exists(d, i) THEN Hub(i, d[i]) ELSE Undefined
DbAdd(d, i, hub) == [d EXCEPT ![i] = hub.name]
DbUpdate(d, i, hub) == IF Exists(d, i) THEN [d EXCEPT ![i] = hub.name] ELSE d
DbRemove(d, i) == IF Exists(d, i) THEN [d EXCEPT ![i] = Absent] ELSE d

(* ---------------------------- state ------------------------------------ *)

VARIABLES
    db,       \* the hubs collection: id -> name, or Absent
    reqs,     \* the request in flight on each connection
    answered, \* the request the last step answered, with its responses
    ack       \* per id: what the last answered PUT or DELETE told its client
              \* about the hub, while the hub is as that request left it

vars == <<db, reqs, answered, ack>>

NoOutcome == [kind |-> "none"]
Unknown == [is |-> "unknown"]
Deleted == [is |-> "deleted"]
Stored(x) == [is |-> "stored", val |-> x]
NotSeen == [existed |-> FALSE, told |-> Unknown]

\* stage: "idle", "pending" (the promise is pending), "settled", "responded"
\* calls: the calls made to the database module; sent: the responses sent
\* fresh: the call changed the hub and nothing changed it since
\* seen: when the database module handled the call, whether the hub of the
\*       call's id existed and, for findById, ack of that id
Idle == [stage |-> "idle", method |-> "GET", path |-> <<>>, body |-> EmptyBody,
         calls |-> <<>>, outcome |-> NoOutcome, sent |-> <<>>,
         fresh |-> FALSE, seen |-> NotSeen]

Init ==
    /\ db \in {d \in [Ids -> Names \cup {Absent}] : Size(d) <= MaxHubs}
    /\ reqs = [c \in Clients |-> Idle]
    /\ answered = Idle
    /\ ack = [i \in Ids |-> Unknown]

Handler(r) == Route(r.method, r.path)

\* the requests clients send: every route, and every method on /hubs
Requests ==
    {x \in Methods \X Paths : Route(x[1], x[2]) # "none" \/ x[2] = <<"hubs">>}
BodiesOf(method) == IF method \in {"POST", "PUT"} THEN {Body(n) : n \in Names} ELSE {EmptyBody}

\* the hub with id i changes: what request q did to it is no longer the last
Stale(q, i) ==
    IF ParamId(q.path) = i THEN [q EXCEPT !.fresh = FALSE] ELSE q

Fulfilled(v) == [kind |-> "fulfilled", v |-> v]
Rejected(e) == [kind |-> "rejected", v |-> Err(e)]
Seen(call) ==
    IF call.fn \in {"findById", "update", "remove"} /\ call.id \in Ids
    THEN [existed |-> Exists(db, call.id), told |-> IF call.fn = "findById" THEN ack[call.id] ELSE Unknown]
    ELSE NotSeen
\* the promise of request r settles with outcome o
Settle(r, o) == [r EXCEPT !.stage = "settled", !.outcome = o, !.seen = Seen(r.calls[1])]

(* ---------------------------- actions ---------------------------------- *)

\* GET /
Root(c) ==
    /\ reqs[c].stage = "idle"
    /\ answered' = [Idle EXCEPT !.stage = "responded",
                        !.sent = <<SendText(200, "hello world from express!!")>>]
    /\ UNCHANGED <<db, reqs, ack>>

\* GET /now
Now(c) ==
    /\ reqs[c].stage = "idle"
    /\ answered' = [Idle EXCEPT !.stage = "responded", !.path = <<"now">>,
                        !.sent = <<SendText(200, "ISO-8601")>>]
    /\ UNCHANGED <<db, reqs, ack>>

\* a request no route matches
NoMatch(c) ==
    /\ reqs[c].stage = "idle"
    /\ \E x \in Requests :
        /\ Route(x[1], x[2]) = "none"
        /\ \E b \in BodiesOf(x[1]) :
            answered' = [Idle EXCEPT !.stage = "responded",
                            !.method = x[1], !.path = x[2], !.body = b,
                            !.sent = <<NoMatchResponse(x[1], x[2])>>]
    /\ UNCHANGED <<db, reqs, ack>>

\* Dispatch by a server that takes a request only when none is in flight
DispatchOneAtATime(c) ==
    /\ \A d \in Clients : reqs[d].stage = "idle"
    /\ \E x \in Requests :
        /\ Route(x[1], x[2]) \in HubHandlers
        /\ \E b \in BodiesOf(x[1]) :
            reqs' = [reqs EXCEPT ![c] = [Idle EXCEPT !.stage = "pending",
                        !.method = x[1], !.path = x[2], !.body = b,
                        !.calls = <<HandlerCall(Route(x[1], x[2]), x[2], b)>>]]
    /\ answered' = Idle
    /\ UNCHANGED <<db, ack>>

\* a request to one of the /hubs routes: the handler calls the database
\* module and returns, the promise pending
Dispatch(c) ==
    /\ reqs[c].stage = "idle"
    /\ \E x \in Requests :
        /\ Route(x[1], x[2]) \in HubHandlers
        /\ \E b \in BodiesOf(x[1]) :
            reqs' = [reqs EXCEPT ![c] = [Idle EXCEPT !.stage = "pending",
                        !.method = x[1], !.path = x[2], !.body = b,
                        !.calls = <<HandlerCall(Route(x[1], x[2]), x[2], b)>>]]
    /\ answered' = Idle
    /\ UNCHANGED <<db, ack>>

\* the database module rejects the call of c's request
Reject(c) ==
    /\ reqs[c].stage = "pending"
    /\ \E e \in Errors : reqs' = [reqs EXCEPT ![c] = Settle(@, Rejected(e))]
    /\ answered' = Idle
    /\ UNCHANGED <<db, ack>>

\* find() fulfils
ServeFind(c) ==
    /\ reqs[c].stage = "pending"
    /\ reqs[c].calls[1].fn = "find"
    /\ reqs' = [reqs EXCEPT ![c] = Settle(@, Fulfilled(DbFind(db)))]
    /\ answered' = Idle
    /\ UNCHANGED <<db, ack>>

\* findById(id) fulfils
ServeFindById(c) ==
    /\ reqs[c].stage = "pending"
    /\ LET call == reqs[c].calls[1] IN
        /\ call.fn = "findById"
        /\ reqs' = [reqs EXCEPT ![c] = Settle(@, Fulfilled(DbFindById(db, call.id)))]
    /\ answered' = Idle
    /\ UNCHANGED <<db, ack>>

\* add(hub) fulfils: the module stores the hub under an unused id
ServeAdd(c) ==
    /\ reqs[c].stage = "pending"
    /\ LET call == reqs[c].calls[1] IN
        /\ call.fn = "add"
        /\ Size(db) < MaxHubs
        /\ \E i \in Ids :
            /\ ~Exists(db, i)
            /\ db' = DbAdd(db, i, call.hub)
            /\ reqs' = [d \in Clients |->
                  IF d = c THEN Settle(reqs[c], Fulfilled(Hub(i, call.hub.name)))
                  ELSE Stale(reqs[d], i)]
            /\ ack' = [ack EXCEPT ![i] = Unknown]
    /\ answered' = Idle

\* update(id, hub) fulfils
ServeUpdate(c) ==
    /\ reqs[c].stage = "pending"
    /\ LET call == reqs[c].calls[1] IN
        /\ call.fn = "update"
        /\ db' = DbUpdate(db, call.id, call.hub)
        /\ IF Exists(db, call.id)
           THEN /\ reqs' = [d \in Clients |->
                      IF d = c
                      THEN [Settle(reqs[c], Fulfilled(Hub(call.id, call.hub.name)))
                               EXCEPT !.fresh = TRUE]
                      ELSE Stale(reqs[d], call.id)]
                /\ ack' = [ack EXCEPT ![call.id] = Unknown]
           ELSE /\ reqs' = [reqs EXCEPT ![c] = Settle(@, Fulfilled(Undefined))]
                /\ UNCHANGED ack
    /\ answered' = Idle

\* remove(id) fulfils
ServeRemove(c) ==
    /\ reqs[c].stage = "pending"
    /\ LET call == reqs[c].calls[1] IN
        /\ call.fn = "remove"
        /\ db' = DbRemove(db, call.id)
        /\ IF Exists(db, call.id)
           THEN /\ reqs' = [d \in Clients |->
                      IF d = c
                      THEN [Settle(reqs[c], Fulfilled(Bool(TRUE))) EXCEPT !.fresh = TRUE]
                      ELSE Stale(reqs[d], call.id)]
                /\ ack' = [ack EXCEPT ![call.id] = Unknown]
           ELSE /\ reqs' = [reqs EXCEPT ![c] = Settle(@, Fulfilled(Bool(FALSE)))]
                /\ UNCHANGED ack
    /\ answered' = Idle

\* the then- or catch-callback of c's request runs and answers
Callback(c) ==
    /\ reqs[c].stage = "settled"
    /\ LET r == reqs[c]
           h == Handler(r)
       IN /\ answered' = [r EXCEPT !.stage = "responded",
                                   !.sent = r.sent \o OnSettled(h, r.outcome)]
          /\ reqs' = [reqs EXCEPT ![c] = Idle]
          /\ ack' = IF r.fresh
                    THEN [ack EXCEPT ![ParamId(r.path)] =
                              IF h = "deleteHub" THEN Deleted ELSE Stored(JsonOf(r.outcome.v))]
                    ELSE ack
    /\ UNCHANGED db

Next ==
    \E c \in Clients :
        \/ Root(c)
        \/ Now(c)
        \/ NoMatch(c)
        \/ Dispatch(c)
        \/ Reject(c)
        \/ ServeFind(c)
        \/ ServeFindById(c)
        \/ ServeAdd(c)
        \/ ServeUpdate(c)
        \/ ServeRemove(c)
        \/ Callback(c)

Spec == Init /\ [][Next]_vars

\* the event loop runs the callbacks of a settled promise
FairSpec == Spec /\ \A c \in Clients : WF_vars(Callback(c))

(* ---------------------------- properties ------------------------------- *)

\* the last step answered a request of handler h
Answered(h) == answered.stage = "responded" /\ Handler(answered) = h
AnsweredHub == answered.stage = "responded" /\ Handler(answered) \in HubHandlers
AnsFulfilled == answered.outcome.kind = "fulfilled"
AnsRejected == answered.outcome.kind = "rejected"
\* the response of the request answered last
Resp == answered.sent[1]
IsJson(r) == r.body.t = "json"
NotFoundBody(r) ==
    /\ IsJson(r)
    /\ {"success", "message"} \subseteq DOMAIN r.body.v
    /\ r.body.v.success = FALSE
ById == {"getHubById", "putHub", "deleteHub"}

\* C1: every request to a /hubs handler whose database call settles gets
\* exactly one response: a request in flight has sent nothing, the step that
\* takes a settled request out of flight sends exactly one response for it,
\* and no request stays settled and unanswered for ever
OneResponse ==
    /\ \A c \in Clients : reqs[c].sent = <<>>
    /\ AnsweredHub => Len(answered.sent) = 1
AnswersOnSettle ==
    [][\A c \in Clients :
          (reqs[c].stage = "settled" /\ reqs'[c].stage # "settled") =>
              /\ reqs'[c] = Idle
              /\ answered'.stage = "responded"
              /\ answered'.method = reqs[c].method
              /\ answered'.path = reqs[c].path
              /\ answered'.outcome = reqs[c].outcome
              /\ Len(answered'.sent) = 1]_vars
C1_ExactlyOneResponse ==
    /\ []OneResponse
    /\ AnswersOnSettle
    /\ \A c \in Clients : []<>(reqs[c].stage # "settled")
C1_Witness ==
    /\ Answered("deleteHub")
    /\ AnsFulfilled
    /\ ~Truthy(answered.outcome.v)
    /\ Len(answered.sent) = 1
    /\ \E c \in Clients : reqs[c].stage = "settled" /\ reqs[c].outcome.kind = "rejected"

\* C2: on each of the five /hubs routes a rejected database call is answered
\* with status 500 and the body {success: false, err}
C2_RejectionIs500Success ==
    (AnsweredHub /\ AnsRejected) =>
        /\ Resp.status = 500
        /\ IsJson(Resp)
        /\ Resp.body.v = [success |-> FALSE, err |-> JsonOf(answered.outcome.v)]

\* C3: GET, PUT and DELETE /hubs/:id on an id that does not exist (the call
\* fulfils with a falsy value) answer 404 with success: false and a message,
\* and the request leaves the collection unchanged
C3_Answer ==
    (answered.stage = "responded" /\ Handler(answered) \in ById /\ AnsFulfilled
        /\ (~answered.seen.existed \/ ~Truthy(answered.outcome.v))) =>
        /\ ~answered.seen.existed
        /\ ~Truthy(answered.outcome.v)
        /\ Resp.status = 404
        /\ NotFoundBody(Resp)
C3_Frame ==
    [][/\ \A c \in Clients :
            (/\ reqs[c].stage = "pending"
             /\ Handler(reqs[c]) \in ById
             /\ reqs'[c].stage = "settled"
             /\ reqs'[c].outcome.kind = "fulfilled"
             /\ ~Truthy(reqs'[c].outcome.v)) => db' = db
       /\ (answered'.stage = "responded") => db' = db]_vars
C3_NotFound == []C3_Answer /\ C3_Frame
C3_Witness ==
    /\ Answered("putHub")
    /\ AnsFulfilled
    /\ ~answered.seen.existed
    /\ Resp.status = 404

\* C4 as stated: DELETE /hubs/:id on an existing id answers 204 with an empty
\* body, and a GET /hubs/:id for that id made after that answer, the id not
\* created again, answers 404
C4_DeleteThenGet404 ==
    /\ (Answered("deleteHub") /\ answered.seen.existed) =>
           Resp = [status |-> 204, body |-> [t |-> "empty"]]
    /\ (Answered("getHubById") /\ answered.seen.told = Deleted) => Resp.status = 404

\* C4 amended: when the remove call fulfils, DELETE on an existing id answers
\* 204 with an empty body, and 204 is answered in no other case; a GET for
\* that id made after the 204, the id not created again, answers 404 when its
\* findById call fulfils and 500 when it rejects, never 200
C4_DeleteThenGet404IfFulfilled ==
    /\ (Answered("deleteHub") /\ AnsFulfilled /\ answered.seen.existed) =>
           Resp = [status |-> 204, body |-> [t |-> "empty"]]
    /\ (Answered("deleteHub") /\ Resp.status = 204) =>
           (AnsFulfilled /\ answered.seen.existed)
    /\ (Answered("getHubById") /\ answered.seen.told = Deleted) =>
           /\ AnsFulfilled => (Resp.status = 404 /\ NotFoundBody(Resp))
           /\ AnsRejected => Resp.status = 500
    /\ \A i \in Ids : ack[i] = Deleted => ~Exists(db, i)
C4_Witness ==
    /\ Answered("getHubById")
    /\ answered.seen.told = Deleted
    /\ Resp.status = 404

\* C5 as stated: PUT /hubs/:id on an existing id answers 200 with
\* {success: true, updated}, updated carrying the submitted fields, and a GET
\* for that id made after that answer, with no PUT or DELETE on the id in
\* between, answers 200 with the updated hub
C5_PutThenGetUpdated ==
    /\ (Answered("putHub") /\ answered.seen.existed) =>
           Resp = [status |-> 200, body |-> [t |-> "json", v |->
                      [success |-> TRUE,
                       updated |-> [id |-> answered.path[2], name |-> answered.body.name]]]]
    /\ (Answered("getHubById") /\ answered.seen.told.is = "stored") =>
           Resp = [status |-> 200, body |-> [t |-> "json", v |-> answered.seen.told.val]]

\* C5 amended: the same when the update call and the findById call fulfil; a
\* rejected call is answered 500
C5_PutThenGetUpdatedIfFulfilled ==
    /\ (Answered("putHub") /\ AnsFulfilled /\ answered.seen.existed) =>
           Resp = [status |-> 200, body |-> [t |-> "json", v |->
                      [success |-> TRUE,
                       updated |-> [id |-> answered.path[2], name |-> answered.body.name]]]]
    /\ (Answered("getHubById") /\ answered.seen.told.is = "stored") =>
           /\ AnsFulfilled =>
                 Resp = [status |-> 200, body |-> [t |-> "json", v |-> answered.seen.told.val]]
           /\ AnsRejected => Resp.status = 500
    /\ (Handler(answered) \in {"putHub", "getHubById"} /\ answered.stage = "responded"
           /\ AnsRejected) => Resp.status = 500
    /\ \A i \in Ids : ack[i].is = "stored" =>
           (Exists(db, i) /\ ack[i].val = [id |-> i, name |-> db[i]])
C5_Witness ==
    /\ Answered("getHubById")
    /\ answered.seen.told.is = "stored"
    /\ answered.seen.told.val.name = "b"
    /\ Resp.status = 200

\* C6: POST /hubs whose add call fulfils with hub answers 201 with the body
\* {success: true, hub}
C6_Post201Success ==
    (Answered("postHub") /\ AnsFulfilled) =>
        /\ Resp.status = 201
        /\ IsJson(Resp)
        /\ Resp.body.v = [success |-> TRUE, hub |-> JsonOf(answered.outcome.v)]

\* C7: GET /hubs/:id on an id in the collection when findById runs answers
\* 200 with exactly that hub when the call fulfils, and never 404
C7_GetExisting ==
    (Answered("getHubById") /\ answered.seen.existed) =>
        /\ Resp.status # 404
        /\ AnsFulfilled =>
              /\ answered.outcome.v.t = "hub"
              /\ answered.outcome.v.id = answered.path[2]
              /\ Resp = [status |-> 200, body |-> [t |-> "json", v |->
                    [id |-> answered.path[2], name |-> answered.outcome.v.name]]]
C7_Witness ==
    /\ Answered("getHubById")
    /\ answered.seen.existed
    /\ AnsFulfilled
    /\ Resp.status = 200
    /\ answered.outcome.v.name = "a"
    /\ \E i \in Ids : Exists(db, i) /\ db[i] = "b"

\* C8: a request no route matches (DELETE /hubs and PUT /hubs among them)
\* runs no handler, calls no method of the database module, gets express's
\* no-match answer and leaves the collection and the other requests alone
Unrouted(r) ==
    \/ <<r.method, r.path>> \in {<<"DELETE", <<"hubs">>>>, <<"PUT", <<"hubs">>>>}
    \/ Handler(r) = "none"
C8_Answer ==
    /\ \A c \in Clients : reqs[c].stage # "idle" => ~Unrouted(reqs[c])
    /\ (answered.stage = "responded" /\ Unrouted(answered)) =>
        /\ answered.calls = <<>>
        /\ answered.outcome = NoOutcome
        /\ answered.sent = <<[status |-> 404, body |->
              [t |-> "text", v |-> <<"Cannot", answered.method, answered.path>>]]>>
C8_Frame ==
    [][(answered'.stage = "responded" /\ Unrouted(answered')) =>
          (db' = db /\ reqs' = reqs)]_vars
C8_NoMatch == []C8_Answer /\ C8_Frame
C8_Witness ==
    /\ answered.stage = "responded"
    /\ answered.method = "DELETE"
    /\ answered.path = <<"hubs">>
    /\ \E i \in Ids : Exists(db, i)

\* C9: a request to a /hubs route calls exactly one method of the database
\* module, once, fixed by the route, with the path's id and the body as they
\* came, and is answered only once that call has settled; the other requests
\* call none, and no GET calls add, update or remove
ExpectedCalls(r) ==
    CASE r.method = "GET" /\ r.path = <<"hubs">> -> <<[fn |-> "find"]>>
      [] r.method = "GET" /\ Len(r.path) = 2 -> <<[fn |-> "findById", id |-> r.path[2]]>>
      [] r.method = "POST" /\ r.path = <<"hubs">> -> <<[fn |-> "add", hub |-> r.body]>>
      [] r.method = "PUT" /\ Len(r.path) = 2 ->
            <<[fn |-> "update", id |-> r.path[2], hub |-> r.body]>>
      [] r.method = "DELETE" /\ Len(r.path) = 2 -> <<[fn |-> "remove", id |-> r.path[2]]>>
      [] OTHER -> <<>>
CallsOk(r) ==
    /\ r.calls = ExpectedCalls(r)
    /\ r.method = "GET" => \A k \in DOMAIN r.calls : r.calls[k].fn \in {"find", "findById"}
    /\ (r.sent # <<>> /\ r.calls # <<>>) => r.outcome.kind \in {"fulfilled", "rejected"}
    /\ r.outcome.kind \in {"fulfilled", "rejected"} => r.calls # <<>>
C9_OneCallPerRequest ==
    /\ \A c \in Clients : reqs[c].stage # "idle" => CallsOk(reqs[c])
    /\ answered.stage = "responded" => CallsOk(answered)
C9_Witness ==
    /\ Answered("putHub")
    /\ answered.calls = <<[fn |-> "update", id |-> "1", hub |-> [t |-> "obj", name |-> "b"]]>>
    /\ AnsFulfilled
    /\ \E c \in Clients : reqs[c].stage = "pending" /\ reqs[c].method = "GET"

\* C10: a request whose call is pending stops no other request: whatever the
\* others do, a free connection can send any request and have GET / answered,
\* a pending call can settle and a settled request is answered; the step
\* that answers a request computes the response from that request's own
\* outcome and touches no other request, and the outcome is the one of its
\* own call
OwnResult(r) ==
    LET h == Handler(r)
        v == r.outcome.v
    IN r.outcome.kind = "fulfilled" =>
        CASE h = "getHubById" -> v.t = "hub" => v.id = r.path[2]
          [] h = "putHub" -> v.t = "hub" => (v.id = r.path[2] /\ v.name = r.body.name)
          [] h = "postHub" -> v.t = "hub" /\ v.name = r.body.name
          [] h = "deleteHub" -> v.t = "bool"
          [] h = "getHubs" -> v.t = "list"
          [] OTHER -> FALSE
C10_NonBlocking ==
    \A c \in Clients :
        /\ reqs[c].stage = "idle" => (ENABLED Dispatch(c) /\ ENABLED Root(c))
        /\ reqs[c].stage = "pending" => ENABLED Reject(c)
        /\ reqs[c].stage = "settled" => (ENABLED Callback(c) /\ OwnResult(reqs[c]))
C10_OwnOutcome ==
    [][\A c \in Clients :
          (reqs[c].stage = "settled" /\ reqs'[c].stage # "settled") =>
              /\ answered' = [reqs[c] EXCEPT !.stage = "responded",
                    !.sent = OnSettled(Handler(reqs[c]), reqs[c].outcome)]
              /\ \A d \in Clients \ {c} : reqs'[d] = reqs[d]]_vars
C10_Independent == []C10_NonBlocking /\ C10_OwnOutcome
C10_Witness ==
    /\ Answered("getHubById")
    /\ Resp.status = 200
    /\ \E c \in Clients :
          /\ reqs[c].stage = "pending"
          /\ Handler(reqs[c]) = "deleteHub"
          /\ reqs[c].path = answered.path

====
